---- MODULE Spec2Model ----
(***************************************************************************)
(* Model of the Mafia game engine of extensions/game.py, with the roles of *)
(* extensions/players.py and the nomination filter of extensions/utils.py. *)
(*                                                                         *)
(* A player is identified by its position in MafiaGame.players (1..n).     *)
(* None is written 0.  Attack and defense tiers are the values of the      *)
(* AttackType / DefenseType enums (1, 2, 3), 0 when the class has none.    *)
(*                                                                         *)
(* Messages and reactions of the chat platform are inputs.  An action that *)
(* takes a choice stands for the rest of the handler once bot.wait_for has *)
(* delivered a message naming one of the choices the handler offered; the  *)
(* delivery itself belongs to the chat platform layer and is not modelled  *)
(* there; the filters wait_for is given for the private channels and the   *)
(* mafia chat (utils.py:130-171) are followed by ChoiceSpec.               *)
(* ctx.create_task is taken to start its coroutine as a task of the event  *)
(* loop, and the tasks of a phase still waiting when the phase's wait ends *)
(* are cancelled (game.py:642-647, 768-773).  Spec does not follow time:   *)
(* the wait of a phase may end after any number of inputs.  What the wait  *)
(* really waits for, and for how long, is followed by TimerSpec.           *)
(***************************************************************************)
EXTENDS Integers, Sequences, FiniteSets, TLC

\* Highest value of MafiaGame._day for which a night is still resolved.
MaxDay == 2

\* Most nomination messages accepted by nomination_check in one day.
MaxNoms == 2

\* Most reactions of players on the vote message when it is tallied.
MaxVotes == 2

None == 0

(***************************************************************************)
(* Role catalogue (players.py).                                            *)
(***************************************************************************)
\* players.py:15-18, 33-36
basic == 1
powerful == 2
unstoppable == 3

special_mafia == {"Janitor", "Disguiser"}
special_citizens == {"Doctor", "Sheriff", "PI", "Jailor", "Lookout"}
special_independents == {"Jester", "Executioner", "Arsonist", "Survivor"}

is_mafia(r) == r \in {"Mafia"} \cup special_mafia
is_citizen(r) == r \in {"Citizen"} \cup special_citizens
is_independent(r) == r \in special_independents

attack_type(r) ==
    CASE is_mafia(r) -> basic
      [] r = "Sheriff" -> basic
      [] r = "Jailor" -> unstoppable
      [] r = "Arsonist" -> unstoppable
      [] OTHER -> None

defense_type(r) ==
    CASE r = "Doctor" -> powerful
      [] r = "Jailor" -> powerful
      [] r = "Survivor" -> basic
      [] r = "Arsonist" -> basic
      [] OTHER -> None

win_is_multi(r) == r = "Survivor"

can_kill_mafia_at_night(r) == r = "Sheriff"

\* Survivor.vests, Jailor.jails, Janitor.cleans at construction
StartVests == 4
StartJails == 3
StartCleans == 3

(***************************************************************************)
(* Configurations the game is started with: the special roles in the order *)
(* of the configuration, the number of mafia and the number of members.    *)
(***************************************************************************)
Configs ==
    { [special_roles |-> <<"Doctor", "Sheriff">>, starting_mafia |-> 2, members |-> 5],
      [special_roles |-> <<"Janitor", "Survivor">>, starting_mafia |-> 2, members |-> 5],
      [special_roles |-> <<"Janitor", "Disguiser">>, starting_mafia |-> 2, members |-> 4],
      [special_roles |-> <<"Jailor", "Arsonist">>, starting_mafia |-> 1, members |-> 4],
      [special_roles |-> <<"Jester">>, starting_mafia |-> 1, members |-> 5] }

NewPlayer(r, m) ==
    [ member |-> m, role |-> r, dead |-> FALSE, killed_by |-> None, visited_by |-> <<>>,
      protected_by |-> None, cleaned_by |-> None, disguised_as |-> None,
      doused |-> FALSE, lynched |-> FALSE, night_role_blocked |-> FALSE,
      jailed |-> FALSE, is_godfather |-> FALSE,
      vests |-> IF r = "Survivor" THEN StartVests ELSE 0,
      jails |-> IF r = "Jailor" THEN StartJails ELSE 0,
      cleans |-> IF r = "Janitor" THEN StartCleans ELSE 0,
      jailed_player |-> None, watching |-> None ]

NumMafia(seq) == Cardinality({i \in 1..Len(seq) : is_mafia(seq[i])})

\* MafiaGame.pick_players: special roles first, then plain mafia up to
\* starting_mafia, then citizens for every member left.  The members are
\* numbered in the order in which the shuffled _members is popped.
pick_players(cfg) ==
    LET sp == cfg.special_roles
        nm == IF cfg.starting_mafia > NumMafia(sp)
              THEN cfg.starting_mafia - NumMafia(sp) ELSE 0
        roles == [i \in 1..cfg.members |->
                    IF i <= Len(sp) THEN sp[i]
                    ELSE IF i <= Len(sp) + nm THEN "Mafia"
                    ELSE "Citizen"]
    IN  [i \in 1..cfg.members |-> NewPlayer(roles[i], i)]

\* the value of timer while no asyncio.wait is followed
no_timer == [clock |-> 0, timeout |-> 0, wrappers |-> FALSE, forbids |-> FALSE]

VARIABLES
    players,      \* MafiaGame.players
    is_day,       \* MafiaGame.is_day
    day,          \* MafiaGame._day
    pc,           \* position of the game task in _start / _cycle
    pending,      \* players whose day_task / night_task of the running phase is waiting
    phase_task,   \* nominate_player (day) or mafia_check (night) is waiting
    nominations,  \* day_tasks: nominations[player] (0 when absent)
    nomination,   \* day_tasks: nominations["nomination"], None when no vote is open
    unjailing,    \* the Jailor whose unjail task is sleeping, None when there is none
    announced,    \* pre_day: players named in a public death announcement
    no_kill_note, \* pre_day: "No one was killed last night!" was published
    winners,      \* _start: result of get_winners
    night_log,    \* history: the night actions accepted this night, in order
    night_base,   \* history: players when the night's tasks were started
    nominated_by, \* history: per player, the authors of the nominations accepted
                  \* today (followed by DaySpec only)
    yes_votes,    \* day_tasks: the users of the thumbs up reaction when msg is
                  \* fetched (followed by DaySpec only)
    no_votes,     \* the same for the thumbs down reaction
    cleaner_notes,\* pre_day: <<cleaner, player, role>> sent to the cleaner's channel
    timer,        \* the asyncio.wait of the running phase (followed by TimerSpec only)
    config,       \* MafiaGame._config
    members,      \* MafiaGame._members: the members pick_players has not popped yet
    todo,         \* pick_players: iterations left of the range of the plain-mafia loop
    notifs,       \* pre_day: the deaths day_notification published, <<player, killer>>
    reports,      \* the messages sent to the channels of the PI and the Lookout
    lingering,    \* nominations of the nominate_player tasks of earlier days that are
                  \* still waiting, oldest first (followed by NominateSpec only)
    votes         \* <<day, player>> of the vote messages nominate_player tasks have
                  \* sent (followed by NominateSpec only)

vars == << players, is_day, day, pc, pending, phase_task, nominations, nomination,
           unjailing, announced, no_kill_note, winners, night_log, night_base,
           nominated_by, yes_votes, no_votes, cleaner_notes, timer,
                    config, members, todo, notifs, reports, lingering, votes >>

P == DOMAIN players

(***************************************************************************)
(* Properties of MafiaGame (game.py:84-106).                               *)
(***************************************************************************)
Alive(ps) == {i \in DOMAIN ps : ~ps[i].dead}

total_mafia(ps) == Cardinality({i \in Alive(ps) : is_mafia(ps[i].role)})

total_alive(ps) == Cardinality(Alive(ps))

LivingMafia(ps) == {i \in Alive(ps) : is_mafia(ps[i].role)}

\* MafiaGame.godfather: the first living player flagged godfather, else None
godfather(ps) ==
    LET g == {i \in Alive(ps) : ps[i].is_godfather}
    IN  IF g = {} THEN None ELSE CHOOSE i \in g : \A j \in g : i <= j

(***************************************************************************)
(* Win conditions (players.py).                                            *)
(***************************************************************************)
\* Mafia.win_condition without the test for living players that can kill
\* mafia at night
Mafia_win_condition_NoKillerTest(ps, isday) ==
    IF isday
    THEN 2 * total_mafia(ps) >= total_alive(ps)
    ELSE 2 * total_mafia(ps) > total_alive(ps)

\* Mafia.win_condition
Mafia_win_condition(ps, isday) ==
    IF isday
    THEN IF \E i \in Alive(ps) : can_kill_mafia_at_night(ps[i].role)
         THEN FALSE
         ELSE 2 * total_mafia(ps) >= total_alive(ps)
    ELSE 2 * total_mafia(ps) > total_alive(ps)

\* Citizen.win_condition counting the dead mafia too
Citizen_win_condition_WholeRoster(ps) ==
    Cardinality({i \in DOMAIN ps : is_mafia(ps[i].role)}) = 0

\* Citizen.win_condition
Citizen_win_condition(ps) == total_mafia(ps) = 0

\* Jester.win_condition
Jester_win_condition(ps, i) ==
    \/ ps[i].lynched
    \/ /\ ps[i].dead
       /\ ps[i].killed_by # None
       /\ ~is_mafia(ps[ps[i].killed_by].role)

\* Arsonist.win_condition
Arsonist_win_condition(ps, i) == total_alive(ps) = 1 /\ ~ps[i].dead

\* Survivor.win_condition
Survivor_win_condition(ps, i) == ~ps[i].dead

\* player.win_condition(game), dispatched on the class of the player
win_condition(ps, i, isday) ==
    LET r == ps[i].role IN
    CASE is_mafia(r) -> Mafia_win_condition(ps, isday)
      [] is_citizen(r) -> Citizen_win_condition(ps)
      [] r = "Jester" -> Jester_win_condition(ps, i)
      [] r = "Arsonist" -> Arsonist_win_condition(ps, i)
      [] r = "Survivor" -> Survivor_win_condition(ps, i)
      [] OTHER -> FALSE

\* check_winner without the test of win_is_multi
check_winner_AnyPlayer(ps, isday) ==
    \E i \in DOMAIN ps : win_condition(ps, i, isday)

\* MafiaGame.check_winner
check_winner(ps, isday) ==
    \E i \in DOMAIN ps : ~win_is_multi(ps[i].role) /\ win_condition(ps, i, isday)

\* get_winners leaving out the players whose win is simultaneous
get_winners_NotMulti(ps, isday) ==
    {i \in DOMAIN ps : ~win_is_multi(ps[i].role) /\ win_condition(ps, i, isday)}

\* MafiaGame.get_winners
get_winners(ps, isday) == {i \in DOMAIN ps : win_condition(ps, i, isday)}

(***************************************************************************)
(* Godfather selection.                                                    *)
(***************************************************************************)
\* the list random.choice draws from in choose_godfather
godfather_candidates(ps) ==
    {i \in DOMAIN ps : is_mafia(ps[i].role) /\ ps[i].role \notin special_mafia}

\* choose_godfather flagging every player of the list it draws from
choose_godfather_FlagsAll(ps, c) ==
    [i \in DOMAIN ps |->
        IF i \in godfather_candidates(ps) THEN [ps[i] EXCEPT !.is_godfather = TRUE]
        ELSE ps[i]]

\* choose_godfather with the draw c
choose_godfather(ps, c) == [ps EXCEPT ![c].is_godfather = TRUE]

(***************************************************************************)
(* Initial state: MafiaGame constructed, _prepare done, pick_players run.  *)
(***************************************************************************)
Init ==
    /\ config \in Configs
    /\ members = <<>>
    /\ todo = 0
    /\ notifs = <<>>
    /\ reports = {}
    /\ lingering = <<>>
    /\ votes = <<>>
    /\ players = pick_players(config)
    /\ is_day = TRUE
    /\ day = 1
    /\ pc = "start"
    /\ pending = {}
    /\ phase_task = FALSE
    /\ nominations = [i \in DOMAIN players |-> 0]
    /\ nomination = None
    /\ unjailing = None
    /\ announced = {}
    /\ no_kill_note = FALSE
    /\ winners = {}
    /\ night_log = <<>>
    /\ night_base = <<>>
    /\ nominated_by = [i \in DOMAIN players |-> <<>>]
    /\ yes_votes = {}
    /\ no_votes = {}
    /\ cleaner_notes = {}
    /\ timer = no_timer

\* _start up to the loop: choose_godfather; an empty candidate list raises
\* IndexError out of _start.
Start ==
    /\ pc = "start"
    /\ IF godfather_candidates(players) = {}
       THEN pc' = "crashed" /\ UNCHANGED players
       ELSE /\ \E c \in godfather_candidates(players) :
                 players' = choose_godfather(players, c)
            /\ pc' = "pre_day"
    /\ UNCHANGED << is_day, day, pending, phase_task, nominations, nomination,
                    unjailing, announced, no_kill_note, winners, night_log,
                    night_base, nominated_by, yes_votes, no_votes,
                    cleaner_notes, timer,
                    config, members, todo, notifs, reports, lingering, votes >>

(***************************************************************************)
(* Ledger updates of Player (players.py:97-134).                           *)
(***************************************************************************)
visit(ps, t, by) == [ps EXCEPT ![t].visited_by = Append(@, by)]

protect(ps, t, by) == visit([ps EXCEPT ![t].protected_by = by], t, by)

kill(ps, t, by) == visit([ps EXCEPT ![t].killed_by = by], t, by)

clean(ps, t, by) == visit([ps EXCEPT ![t].cleaned_by = by], t, by)

jail(ps, t, by) ==
    visit([ps EXCEPT ![t].jailed = TRUE, ![t].protected_by = by], t, by)

\* Player.cleanup_attrs without the reset of protected_by
cleanup_attrs_KeepProtection(pl) ==
    [pl EXCEPT !.visited_by = <<>>, !.killed_by = None,
               !.night_role_blocked = FALSE, !.cleaned_by = None,
               !.disguised_as = None, !.jailed = FALSE, !.jailed_player = None]

\* Player.cleanup_attrs; on a Jailor the attribute jailed is the jailed player
cleanup_attrs(pl) ==
    [pl EXCEPT !.visited_by = <<>>, !.killed_by = None, !.protected_by = None,
               !.night_role_blocked = FALSE, !.cleaned_by = None,
               !.disguised_as = None, !.jailed = FALSE, !.jailed_player = None]

(***************************************************************************)
(* pre_day: resolution of the night (game.py:651-726).                     *)
(***************************************************************************)
\* the test of game.py:663-666: the branch in which the player is told they
\* were saved
saved(ps, i) ==
    /\ ps[i].protected_by # None
    /\ attack_type(ps[ps[i].killed_by].role)
          > defense_type(ps[ps[i].protected_by].role)

\* the player reaches game.py:692 (player.dead = True) in this pre_day
dies(ps, i) == ~ps[i].dead /\ ps[i].killed_by # None /\ ~saved(ps, i)

\* game.py:681-689 without the test of cleaned_by: every death is published
announce_EveryDeath(ps, ann, i) == ann \cup {i}

\* game.py:675-689: the list `killed` after player i has died; a death is
\* published (notifs and the chat) only when the body was not cleaned
announce(ps, ann, i) ==
    IF ps[i].cleaned_by # None THEN ann ELSE ann \cup {i}

\* game.py:675-679: the messages sent to cleaners after player i has died
tell_cleaner(ps, notes, i) ==
    IF ps[i].cleaned_by # None
    THEN notes \cup {<< ps[i].cleaned_by, i, ps[i].role >>}
    ELSE notes

\* game.py:681-684 naming the role of the victim in place of the killer
notify_VictimRole(ps, nts, i) ==
    IF ps[i].cleaned_by # None THEN nts
    ELSE Append(nts, << i, ps[i].role >>)

\* game.py:681-684: the entry "- player (role) was killed by killer" added to
\* notifs when the body was not cleaned; str(killer) is the killer's class
notify(ps, nts, i) ==
    IF ps[i].cleaned_by # None THEN nts
    ELSE Append(nts, << i, ps[ps[i].killed_by].role >>)

\* The loop of game.py:656-712 from player i on.  ann is the list `killed`,
\* notes the messages sent to cleaners, nts the list notifs; raised tells
\* that choose_godfather raised IndexError, which ends the loop.
RECURSIVE pre_day_loop(_, _, _, _, _)
pre_day_loop(ps, ann, notes, nts, i) ==
    IF i > Len(ps)
    THEN {[players |-> ps, killed |-> ann, cleaned |-> notes, notifs |-> nts,
           raised |-> FALSE]}
    ELSE IF ~dies(ps, i)
    THEN pre_day_loop(ps, ann, notes, nts, i + 1)
    ELSE LET ann1 == announce(ps, ann, i)
             notes1 == tell_cleaner(ps, notes, i)
             nts1 == notify(ps, nts, i)
             ps1 == [ps EXCEPT ![i].dead = TRUE]
         IN  IF ~ps1[i].is_godfather
             THEN pre_day_loop(ps1, ann1, notes1, nts1, i + 1)
             ELSE IF godfather_candidates(ps1) = {}
             THEN {[players |-> ps1, killed |-> ann1, cleaned |-> notes1,
                    notifs |-> nts1, raised |-> TRUE]}
             ELSE UNION { pre_day_loop(
                              [choose_godfather(ps1, c) EXCEPT ![i].is_godfather = FALSE],
                              ann1, notes1, nts1, i + 1)
                          : c \in godfather_candidates(ps1) }

\* game.py:722-724
cleanup_all(ps) ==
    [i \in DOMAIN ps |-> IF ps[i].dead THEN ps[i] ELSE cleanup_attrs(ps[i])]

PreDay ==
    /\ pc = "pre_day"
    /\ IF day > 1
       THEN \E o \in pre_day_loop(players, {}, {}, <<>>, 1) :
               IF o.raised
               THEN /\ players' = o.players
                    /\ announced' = o.killed
                    /\ cleaner_notes' = o.cleaned
                    /\ no_kill_note' = FALSE
                    /\ notifs' = <<>>
                    /\ pc' = "crashed"
               ELSE /\ players' = cleanup_all(o.players)
                    /\ announced' = o.killed
                    /\ cleaner_notes' = o.cleaned
                    /\ no_kill_note' = (o.killed = {})
                    /\ notifs' = o.notifs
                    /\ pc' = "check_pre_day"
       ELSE /\ players' = cleanup_all(players)
            /\ announced' = {}
            /\ cleaner_notes' = {}
            /\ no_kill_note' = FALSE
            /\ notifs' = <<>>
            /\ pc' = "check_pre_day"
    /\ UNCHANGED << is_day, day, pending, phase_task, nominations, nomination,
                    unjailing, winners, night_log, night_base,
                    nominated_by, yes_votes, no_votes, timer,
                    config, members, todo, reports,
                    lingering, votes >>

(***************************************************************************)
(* Win checks of _cycle and the end of _start (game.py:527-573).           *)
(***************************************************************************)
\* the loop of _start is left: get_winners is sent
Resolve ==
    /\ pc' = "resolution"
    /\ winners' = get_winners(players, is_day)

CheckAfterPreDay ==
    /\ pc = "check_pre_day"
    /\ IF check_winner(players, is_day)
       THEN Resolve
       ELSE pc' = "day_tasks" /\ UNCHANGED winners
    /\ night_log' = <<>>
    /\ night_base' = <<>>
    /\ UNCHANGED << players, is_day, day, pending, phase_task, nominations,
                    nomination, unjailing, announced, no_kill_note,
                    nominated_by, yes_votes, no_votes, cleaner_notes, timer,
                    config, members, todo, notifs, reports, lingering, votes >>

\* _cycle without the increment of _day
CheckAfterDay_NoIncrement ==
    /\ pc = "check_day"
    /\ IF check_winner(players, is_day)
       THEN Resolve /\ UNCHANGED day
       ELSE pc' = "night_tasks" /\ UNCHANGED day /\ UNCHANGED winners
    /\ UNCHANGED << players, is_day, pending, phase_task, nominations, nomination,
                    unjailing, announced, no_kill_note, night_log, night_base,
                    nominated_by, yes_votes, no_votes, cleaner_notes, timer,
                    config, members, todo, notifs, reports, lingering, votes >>

CheckAfterDay ==
    /\ pc = "check_day"
    /\ IF check_winner(players, is_day)
       THEN Resolve /\ UNCHANGED day
       ELSE pc' = "night_tasks" /\ day' = day + 1 /\ UNCHANGED winners
    /\ UNCHANGED << players, is_day, pending, phase_task, nominations, nomination,
                    unjailing, announced, no_kill_note, night_log, night_base,
                    nominated_by, yes_votes, no_votes, cleaner_notes, timer,
                    config, members, todo, notifs, reports, lingering, votes >>

\* After the night's check the loop of game.py:543-544 calls ctx.create_task
\* for every post_night_task.  create_task is a coroutine function
\* (utils.py:18) and its coroutine is dropped there without being awaited, so
\* no post_night_task is started and nothing is sent.  Then the loop of
\* _start runs the next cycle (as long as the model follows it: up to the
\* cycle in which _day is `last`).
check_after_night(last) ==
    /\ pc = "check_night"
    /\ IF check_winner(players, is_day)
       THEN Resolve
       ELSE day <= last /\ pc' = "pre_day" /\ UNCHANGED winners
    /\ UNCHANGED << players, is_day, day, pending, phase_task, nominations,
                    nomination, unjailing, announced, no_kill_note, night_log,
                    night_base, nominated_by, yes_votes, no_votes,
                    cleaner_notes, timer,
                    config, members, todo, notifs, reports, lingering, votes >>

CheckAfterNight == pc = "check_night" /\ check_after_night(MaxDay)

(***************************************************************************)
(* day_tasks (game.py:728-817).                                            *)
(***************************************************************************)
\* default choices of Player.wait_for_player: living players other than self
choices(ps, i) == {t \in Alive(ps) : t # i}

\* The tasks are created; a Jailor with jails left waits for a name.  The
\* unjail task of the last night (a sleep of night_length started with the
\* night) has ended by the time the day's tasks are created.
DayTasksStart ==
    /\ pc = "day_tasks"
    /\ unjailing = None
    /\ pending' = {i \in Alive(players) :
                      players[i].role = "Jailor" /\ players[i].jails > 0}
    /\ phase_task' = (day > 1)
    /\ nominations' = [i \in P |-> 0]
    /\ nomination' = None
    /\ pc' = "day"
    /\ UNCHANGED << players, is_day, day, unjailing, announced, no_kill_note,
                    winners, night_log, night_base, nominated_by, yes_votes, no_votes,
                    cleaner_notes, timer,
                    config, members, todo, notifs, reports, lingering, votes >>

\* Jailor.day_task once the name t has come
Jailor_day_task(ps, j, t) ==
    [jail([ps EXCEPT ![t].night_role_blocked = TRUE], t, j)
        EXCEPT ![j].jailed_player = t, ![j].jails = @ - 1]

JailorJail ==
    /\ pc = "day"
    /\ \E j \in pending : \E t \in choices(players, j) :
          /\ players[j].role = "Jailor"
          /\ players' = Jailor_day_task(players, j, t)
          /\ pending' = pending \ {j}
    /\ UNCHANGED << is_day, day, pc, phase_task, nominations, nomination,
                    unjailing, announced, no_kill_note, winners, night_log,
                    night_base, nominated_by, yes_votes, no_votes,
                    cleaner_notes, timer,
                    config, members, todo, notifs, reports, lingering, votes >>

\* utils.nomination_check (mafia = False) on a ">>nominate t" message of a
\* and, when it returns True, the rest of nominate_player
noms_needed == 2

\* the number of nomination messages accepted so far today
RECURSIVE accepted(_, _)
accepted(noms, i) ==
    IF i > Len(noms) THEN 0 ELSE noms[i] + accepted(noms, i + 1)

\* nomination_check.check with one count shared by all the targets
nominate_SharedCount(a, t) ==
    /\ pc = "day"
    /\ phase_task
    /\ a # t
    /\ ~players[t].dead
    /\ nominations' = [nominations EXCEPT ![t] = @ + 1]
    /\ IF accepted(nominations', 1) = noms_needed
       THEN nomination' = t /\ phase_task' = FALSE
       ELSE UNCHANGED << nomination, phase_task >>
    /\ UNCHANGED << players, is_day, day, pc, pending, unjailing, announced,
                    no_kill_note, winners, night_log, night_base,
                    yes_votes, no_votes, cleaner_notes, timer,
                    config, members, todo, notifs, reports, lingering, votes >>

\* nomination_check.check on the message ">>nominate t" of a and, when it
\* returns True, the rest of nominate_player
nominate(a, t) ==
    /\ pc = "day"
    /\ phase_task
    /\ a # t
    /\ ~players[t].dead
    /\ nominations' = [nominations EXCEPT ![t] = @ + 1]
    /\ IF nominations'[t] = noms_needed
       THEN nomination' = t /\ phase_task' = FALSE
       ELSE UNCHANGED << nomination, phase_task >>
    /\ UNCHANGED << players, is_day, day, pc, pending, unjailing, announced,
                    no_kill_note, winners, night_log, night_base,
                    yes_votes, no_votes, cleaner_notes, timer,
                    config, members, todo, notifs, reports, lingering, votes >>

Nominate ==
    /\ \E a \in P : \E t \in P : nominate(a, t)
    /\ UNCHANGED nominated_by

\* game.py:790-793 without player.dead = True
lynch_StaysAlive(ps, t) == [ps EXCEPT ![t].lynched = TRUE]

\* game.py:790-810 for the nominee t; choose_godfather draws c
lynch(ps, t) == [ps EXCEPT ![t].dead = TRUE, ![t].lynched = TRUE]

lynch_outcomes(ps, t) ==
    LET ps1 == lynch(ps, t) IN
    IF is_mafia(ps1[t].role) /\ ps1[t].is_godfather
          /\ godfather_candidates(ps1) # {}
    THEN {choose_godfather(ps1, c) : c \in godfather_candidates(ps1)}
    ELSE {ps1}

\* the tally counting every user of the two reactions
tally_EveryUser(ps, yes, no) == Cardinality(yes) > Cardinality(no)

\* game.py:779-790: whether yes_count > no_count, yes and no being the users
\* of the two reactions; a user counts when it is a player who is not dead
tally(ps, yes, no) ==
    LET yes_count == Cardinality(yes \cap Alive(ps))
        no_count == Cardinality(no \cap Alive(ps))
    IN  yes_count > no_count

\* the bot's own user: nominate_player puts both reactions on the message
bot_user(ps) == Len(ps) + 1

\* the reactions players (dead ones too) may have put on the vote message
reactions(ps) ==
    {r \in [yes : SUBSET DOMAIN ps, no : SUBSET DOMAIN ps] :
        Cardinality(r.yes) + Cardinality(r.no) <= MaxVotes}

\* game.py:775-817, after the wait of game.py:768 has ended: the reactions
\* on the vote message (users yes and no) are fetched and tallied.
day_end(yes, no) ==
    /\ pc = "day"
    /\ pc' = "check_day"
    /\ IF nomination # None /\ tally(players, yes, no)
       THEN players' \in lynch_outcomes(players, nomination)
       ELSE UNCHANGED players
    /\ nominations' = [i \in P |-> 0]
    /\ nomination' = None
    /\ UNCHANGED << is_day, day, unjailing, announced, no_kill_note, winners,
                    night_log, night_base, cleaner_notes, timer,
                    config, members, todo, notifs, reports, lingering, votes >>

\* The wait of game.py:768 ends and the tasks still waiting are cancelled
\* (game.py:772-773); then the vote is tallied.
DayEnd ==
    /\ \E r \in reactions(players) :
          day_end(r.yes \cup {bot_user(players)}, r.no \cup {bot_user(players)})
    /\ pending' = {}
    /\ phase_task' = FALSE
    /\ UNCHANGED << nominated_by, yes_votes, no_votes >>

(***************************************************************************)
(* night_tasks (game.py:586-649) and the night tasks of the roles.         *)
(***************************************************************************)
\* the player's night_task waits for an input after its first step
waits_at_night(pl) ==
    CASE pl.role \in {"Doctor", "Sheriff", "Arsonist", "Disguiser", "PI", "Lookout"} -> TRUE
      [] pl.role = "Survivor" -> pl.vests > 0
      [] pl.role = "Jailor" -> pl.jailed_player # None
      [] pl.role = "Janitor" -> ~(pl.cleans <= 3)
      [] OTHER -> FALSE

\* game.py:635-640 and the first step of every task started there: blocked
\* players are unblocked and get no task, the Arsonist protects itself
start_night_tasks(ps) ==
    [i \in DOMAIN ps |->
        IF ps[i].dead \/ ps[i].night_role_blocked
        THEN [ps[i] EXCEPT !.night_role_blocked = FALSE]
        ELSE IF ps[i].role = "Arsonist"
        THEN [ps[i] EXCEPT !.protected_by = i]
        ELSE ps[i]]

\* game.py:635-640 without the test of night_role_blocked
night_task_started_Blocked(ps) == {i \in DOMAIN ps : ~ps[i].dead}

\* game.py:635-640: the players whose night_task is started
night_task_started(ps) ==
    {i \in DOMAIN ps : ~ps[i].dead /\ ~ps[i].night_role_blocked}

\* With no living godfather game.py:606 raises AttributeError.
NightTasksStart ==
    /\ pc = "night_tasks"
    /\ IF godfather(players) = None
       THEN /\ pc' = "crashed"
            /\ UNCHANGED << players, pending, phase_task, unjailing, night_base >>
       ELSE /\ pc' = "night"
            /\ phase_task' = ~players[godfather(players)].night_role_blocked
            /\ players' = start_night_tasks(players)
            /\ pending' = {i \in night_task_started(players) :
                             waits_at_night(players[i])}
            /\ unjailing' =
                 IF \E j \in pending' : players[j].role = "Jailor"
                 THEN CHOOSE j \in pending' : players[j].role = "Jailor"
                 ELSE unjailing
            /\ night_base' = players'
    /\ UNCHANGED << is_day, day, nominations, nomination, announced,
                    no_kill_note, winners, night_log,
                    nominated_by, yes_votes, no_votes, cleaner_notes, timer,
                    config, members, todo, notifs, reports, lingering, votes >>

\* the godfather's targets: game.py:598-602 and utils.mafia_kill_check
mafia_targets(ps) == {t \in Alive(ps) : ~is_mafia(ps[t].role)}

\* mafia_check without the test of the target's protection
mafia_check_NoProtectionTest(ps, t) == kill(ps, t, godfather(ps))

\* mafia_check once the target t has come (game.py:619-631)
mafia_check(ps, t) ==
    LET g == godfather(ps) IN
    IF /\ ps[t].protected_by # None
       /\ defense_type(ps[ps[t].protected_by].role) >= attack_type(ps[g].role)
    THEN ps
    ELSE kill(ps, t, g)

\* Doctor.night_task
Doctor_night_task(ps, d, t) == protect(ps, t, d)

\* Sheriff.night_task marking the Sheriff dead as soon as the shot is wrong
Sheriff_night_task_DiesAtOnce(ps, s, t) ==
    IF \/ is_citizen(ps[t].role)
       \/ /\ ps[t].disguised_as # None
          /\ is_citizen(ps[ps[t].disguised_as].role)
    THEN visit([kill(ps, s, s) EXCEPT ![s].dead = TRUE], t, s)
    ELSE kill(ps, t, s)

\* Sheriff.night_task
Sheriff_night_task(ps, s, t) ==
    IF \/ is_citizen(ps[t].role)
       \/ /\ ps[t].disguised_as # None
          /\ is_citizen(ps[ps[t].disguised_as].role)
    THEN visit(kill(ps, s, s), t, s)
    ELSE kill(ps, t, s)

\* Survivor.night_task once the reaction has come
Survivor_night_task(ps, s) ==
    [ps EXCEPT ![s].vests = @ - 1, ![s].protected_by = s]

\* Arsonist.night_task: the loop over `doused` from player i on
RECURSIVE ignite(_, _, _)
ignite(ps, a, i) ==
    IF i > Len(ps) THEN ps
    ELSE IF ps[i].doused /\ ~ps[i].dead
    THEN ignite(kill(ps, i, a), a, i + 1)
    ELSE ignite(ps, a, i + 1)

undoused(ps) == {t \in Alive(ps) : ~ps[t].doused}

Arsonist_night_task(ps, a, t) ==
    IF t = a
    THEN ignite(ps, a, 1)
    ELSE visit([ps EXCEPT ![t].doused = TRUE], t, a)

\* Janitor.night_task after its first test, once the target t has come
Janitor_night_task(ps, j, t) == [clean(ps, t, j) EXCEPT ![j].cleans = @ - 1]

\* Player.disguise
disguise(ps, t, target, by) == visit([ps EXCEPT ![t].disguised_as = target], t, by)

\* Disguiser.night_task once both names have come: p1 among the living
\* mafia, p2 among the living players who are not mafia
Disguiser_night_task(ps, d, p1, p2) ==
    IF ~ps[p1].jailed /\ ~ps[p2].jailed
    THEN disguise(ps, p1, p2, d)
    ELSE ps

\* PI.night_task: the comparison of players.py:347-349
same_alignment(ps, p1, p2) ==
    \/ is_citizen(ps[p1].role) /\ is_citizen(ps[p2].role)
    \/ is_mafia(ps[p1].role) /\ is_mafia(ps[p2].role)

\* PI.night_task once both names have come: the message sent to the PI
PI_night_task(ps, pi, p1, p2, d) ==
    [to |-> pi, day |-> d, kind |-> "alignment", first |-> p1, second |-> p2,
     same |-> same_alignment(ps, p1, p2)]

\* Lookout.night_task once the name has come
Lookout_night_task(ps, l, t) == [ps EXCEPT ![l].watching = t]

\* Lookout.post_night_task: the message it sends when it runs
Lookout_post_night_task(ps, l, d) ==
    [to |-> l, day |-> d, kind |-> "visitors", watching |-> ps[l].watching,
     visitors |-> ps[ps[l].watching].visited_by]

\* Jailor.night_task: the check of game.py:290-303 on "Execute"
Jailor_execute(ps, j) == kill(ps, ps[j].jailed_player, j)

\* the effect of one accepted night input
apply_night(ps, a) ==
    CASE a.kind = "mafia_kill" -> mafia_check(ps, a.target)
      [] a.kind = "protect" -> Doctor_night_task(ps, a.actor, a.target)
      [] a.kind = "shoot" -> Sheriff_night_task(ps, a.actor, a.target)
      [] a.kind = "vest" -> Survivor_night_task(ps, a.actor)
      [] a.kind = "arson" -> Arsonist_night_task(ps, a.actor, a.target)
      [] a.kind = "execute" -> Jailor_execute(ps, a.actor)
      [] a.kind = "clean" -> Janitor_night_task(ps, a.actor, a.target)
      [] a.kind = "disguise" -> Disguiser_night_task(ps, a.actor, a.target, a.as)
      [] a.kind = "watch" -> Lookout_night_task(ps, a.actor, a.target)

NightInput(a) ==
    /\ pc = "night"
    /\ players' = apply_night(players, a)
    /\ night_log' = Append(night_log, a)
    /\ UNCHANGED << is_day, day, pc, nominations, nomination, unjailing,
                    announced, no_kill_note, winners, night_base,
                    nominated_by, yes_votes, no_votes, cleaner_notes, timer,
                    config, members, todo, notifs, reports, lingering, votes >>

Act(k, i, t) == [kind |-> k, actor |-> i, target |-> t]

GodfatherKill ==
    /\ phase_task
    /\ \E t \in mafia_targets(players) :
          NightInput(Act("mafia_kill", godfather(players), t))
    /\ phase_task' = FALSE
    /\ UNCHANGED pending

PlayerInput(i, a) ==
    /\ i \in pending
    /\ NightInput(a)
    /\ pending' = pending \ {i}
    /\ UNCHANGED phase_task

DoctorProtect ==
    \E d \in P : \E t \in choices(players, d) :
        players[d].role = "Doctor" /\ PlayerInput(d, Act("protect", d, t))

SheriffShoot ==
    \E s \in P : \E t \in choices(players, s) :
        players[s].role = "Sheriff" /\ PlayerInput(s, Act("shoot", s, t))

SurvivorVest ==
    \E s \in P :
        players[s].role = "Survivor" /\ PlayerInput(s, Act("vest", s, s))

ArsonistAct ==
    \E a \in P : \E t \in undoused(players) :
        players[a].role = "Arsonist" /\ PlayerInput(a, Act("arson", a, t))

JailorExecute ==
    \E j \in P :
        players[j].role = "Jailor"
          /\ PlayerInput(j, Act("execute", j, players[j].jailed_player))

DisguiserDisguise ==
    \E d \in P : \E p1 \in LivingMafia(players) :
    \E p2 \in Alive(players) \ LivingMafia(players) :
        /\ players[d].role = "Disguiser"
        /\ PlayerInput(d, [kind |-> "disguise", actor |-> d, target |-> p1, as |-> p2])

LookoutWatch ==
    \E l \in P : \E t \in choices(players, l) :
        players[l].role = "Lookout" /\ PlayerInput(l, Act("watch", l, t))

\* the PI's two names have come; the ledger is left alone
PIInvestigate ==
    /\ pc = "night"
    /\ \E pi \in pending : \E p1 \in choices(players, pi) :
       \E p2 \in choices(players, pi) \ {p1} :
          /\ players[pi].role = "PI"
          /\ reports' = reports \cup {PI_night_task(players, pi, p1, p2, day)}
          /\ pending' = pending \ {pi}
    /\ UNCHANGED << players, is_day, day, pc, phase_task, nominations, nomination,
                    unjailing, announced, no_kill_note, winners, night_log,
                    night_base, nominated_by, yes_votes, no_votes,
                    cleaner_notes, timer, config, members, todo, notifs,
                    lingering, votes >>

\* game.py:649, after the wait of game.py:642 has ended
night_end ==
    /\ pc = "night"
    /\ pc' = "check_night"
    /\ UNCHANGED << players, is_day, day, nominations, nomination, unjailing,
                    announced, no_kill_note, winners, night_log, night_base,
                    nominated_by, yes_votes, no_votes, cleaner_notes, timer,
                    config, members, todo, notifs, reports, lingering, votes >>

\* The wait of game.py:642 ends (the night's length has passed) and the
\* tasks still waiting are cancelled (game.py:646-647).
NightEnd ==
    /\ night_end
    /\ pending' = {}
    /\ phase_task' = FALSE

\* Jailor.unjail after its sleep of night_length
Unjail ==
    /\ unjailing # None
    /\ pc # "night"
    /\ players' = [players EXCEPT ![unjailing].jailed_player = None]
    /\ unjailing' = None
    /\ UNCHANGED << is_day, day, pc, pending, phase_task, nominations,
                    nomination, announced, no_kill_note, winners, night_log,
                    night_base, nominated_by, yes_votes, no_votes,
                    cleaner_notes, timer,
                    config, members, todo, notifs, reports, lingering, votes >>

Next ==
    \/ Start
    \/ PreDay
    \/ CheckAfterPreDay
    \/ DayTasksStart
    \/ JailorJail
    \/ Nominate
    \/ DayEnd
    \/ CheckAfterDay
    \/ NightTasksStart
    \/ GodfatherKill
    \/ DoctorProtect
    \/ SheriffShoot
    \/ SurvivorVest
    \/ ArsonistAct
    \/ JailorExecute
    \/ NightEnd
    \/ CheckAfterNight
    \/ Unjail

Spec == Init /\ [][Next]_vars

(***************************************************************************)
(* Definitions used to state the properties.                               *)
(***************************************************************************)
\* the defense tier a player has for the cycle: that of whoever protects
\* them, none (0) when nobody does
DefenseOf(ps, i) ==
    IF ps[i].protected_by = None THEN None
    ELSE defense_type(ps[ps[i].protected_by].role)

AttackOn(ps, i) == attack_type(ps[ps[i].killed_by].role)

\* the dead players with the killer recorded for each
DeadWithKiller(ps) == {<<i, ps[i].killed_by>> : i \in {j \in DOMAIN ps : ps[j].dead}}

Perms(n) == {f \in [1..n -> 1..n] : \A i, j \in 1..n : i # j => f[i] # f[j]}

\* the night's inputs of log applied to ps in the order f
RECURSIVE Replay(_, _, _, _)
Replay(ps, log, f, k) ==
    IF k > Len(log) THEN ps
    ELSE Replay(apply_night(ps, log[f[k]]), log, f, k + 1)

\* the players after a pre_day that resolves ps
Resolved(ps) == (CHOOSE o \in pre_day_loop(ps, {}, {}, <<>>, 1) : TRUE).players

WinChecks == {"check_pre_day", "check_day", "check_night"}

DayStates == {"check_pre_day", "day_tasks", "day", "check_day"}

SomeNonSimultaneousWin ==
    \E i \in P : ~win_is_multi(players[i].role) /\ win_condition(players, i, is_day)

(***************************************************************************)
(* One day of day_tasks with the nominators and the reactions recorded:    *)
(* the second day of a game, after a night in which the godfather killed   *)
(* nobody or one player.                                                   *)
(***************************************************************************)
\* the players when the tasks of the second day are created: nobody has
\* died (v = None) or the godfather has killed v in the first night
second_day(ps, v) ==
    IF v = None THEN cleanup_all(ps)
    ELSE cleanup_all(Resolved(mafia_check(start_night_tasks(ps), v)))

DayInit ==
    /\ config \in Configs
    /\ members = <<>>
    /\ todo = 0
    /\ notifs = <<>>
    /\ reports = {}
    /\ lingering = <<>>
    /\ votes = <<>>
    /\ \E c \in godfather_candidates(pick_players(config)) :
          LET ps == choose_godfather(pick_players(config), c) IN
          \E v \in mafia_targets(ps) \cup {None} :
             /\ players = second_day(ps, v)
             /\ ~check_winner(players, TRUE)
    /\ is_day = TRUE
    /\ day = 2
    /\ pc = "day"
    /\ pending = {i \in Alive(players) :
                     players[i].role = "Jailor" /\ players[i].jails > 0}
    /\ phase_task = TRUE
    /\ nominations = [i \in DOMAIN players |-> 0]
    /\ nomination = None
    /\ unjailing = None
    /\ announced = {}
    /\ no_kill_note = FALSE
    /\ winners = {}
    /\ night_log = <<>>
    /\ night_base = <<>>
    /\ nominated_by = [i \in DOMAIN players |-> <<>>]
    /\ yes_votes = {}
    /\ no_votes = {}
    /\ cleaner_notes = {}
    /\ timer = no_timer

NominateLogged ==
    /\ accepted(nominations, 1) < MaxNoms
    /\ \E a \in P : \E t \in P :
          /\ nominate(a, t)
          /\ nominated_by' = [nominated_by EXCEPT ![t] = Append(@, a)]

DayEndLogged ==
    \E r \in reactions(players) :
       /\ yes_votes' = IF nomination # None
                       THEN r.yes \cup {bot_user(players)} ELSE {}
       /\ no_votes' = IF nomination # None
                      THEN r.no \cup {bot_user(players)} ELSE {}
       /\ day_end(r.yes \cup {bot_user(players)}, r.no \cup {bot_user(players)})
       /\ pending' = {}
       /\ phase_task' = FALSE
       /\ nominated_by' = [i \in P |-> <<>>]

DayNext == NominateLogged \/ DayEndLogged

DaySpec == DayInit /\ [][DayNext]_vars

(***************************************************************************)
(* pre_day on the ledgers of a night in which the Janitor cleans.  In a    *)
(* game Janitor.night_task returns at its first test and Player.clean is   *)
(* never called, so pre_day's handling of cleaned_by (game.py:675-689) is  *)
(* followed from the ledgers the night tasks write when the Janitor's task *)
(* goes on to players.py:420-424.                                          *)
(***************************************************************************)
\* Most inputs accepted in the night whose ledger pre_day resolves.
MaxInputs == 3

\* the configurations with a Janitor
JanitorConfigs ==
    {g \in Configs : \E k \in 1..Len(g.special_roles) : g.special_roles[k] = "Janitor"}

\* the rosters of cfg when the tasks of the first night are started
JanitorRosters(cfg) ==
    { start_night_tasks(choose_godfather(pick_players(cfg), c))
      : c \in godfather_candidates(pick_players(cfg)) }

\* the inputs the night tasks of ps take, the Janitor's included
night_inputs(ps) ==
    {Act("clean", j, t) : j \in {k \in Alive(ps) : ps[k].role = "Janitor"},
                          t \in Alive(ps)}
      \cup {Act("mafia_kill", godfather(ps), t) : t \in mafia_targets(ps)}
      \cup {Act("vest", v, v) : v \in {k \in Alive(ps) : ps[k].role = "Survivor"}}

\* the nights of ps: at most MaxInputs inputs, one for each task, a target
\* other than the player itself where wait_for_player asks for one
nights(ps) ==
    {log \in UNION {[1..n -> night_inputs(ps)] : n \in 0..MaxInputs} :
        /\ \A k, l \in 1..Len(log) :
              k # l => <<log[k].kind, log[k].actor>> # <<log[l].kind, log[l].actor>>
        /\ \A k \in 1..Len(log) :
              log[k].kind = "clean" => log[k].target # log[k].actor}

PreDayInit ==
    /\ config \in JanitorConfigs
    /\ members = <<>>
    /\ todo = 0
    /\ notifs = <<>>
    /\ reports = {}
    /\ lingering = <<>>
    /\ votes = <<>>
    /\ \E base \in JanitorRosters(config) : \E log \in nights(base) :
          /\ night_base = base
          /\ night_log = log
          /\ players = Replay(base, log, [k \in 1..Len(log) |-> k], 1)
    /\ is_day = TRUE
    /\ day = 2
    /\ pc = "pre_day"
    /\ pending = {}
    /\ phase_task = FALSE
    /\ nominations = [i \in DOMAIN players |-> 0]
    /\ nomination = None
    /\ unjailing = None
    /\ announced = {}
    /\ no_kill_note = FALSE
    /\ winners = {}
    /\ nominated_by = [i \in DOMAIN players |-> <<>>]
    /\ yes_votes = {}
    /\ no_votes = {}
    /\ cleaner_notes = {}
    /\ timer = no_timer

PreDayNext == PreDay \/ CheckAfterPreDay

PreDaySpec == PreDayInit /\ [][PreDayNext]_vars

(***************************************************************************)
(* The asyncio.wait of day_tasks and night_tasks (game.py:768-773,         *)
(* 642-647) with time.  utils.CustomContext.create_task is a coroutine     *)
(* function, so what the two functions put in `tasks` for day_sleep /      *)
(* night_sleep, for every day_task / night_task and for nominate_player is *)
(* the coroutine of create_task itself; only mafia_check is passed as its  *)
(* own coroutine.  asyncio.wait either refuses coroutines (TypeError,      *)
(* Python 3.11 and later) or wraps each in a task (earlier versions); the  *)
(* task of a create_task coroutine ends on its first step, having started  *)
(* the sleep or the player's task, which asyncio.wait does not wait for    *)
(* and which is not in the set `pending` it returns: the loops of          *)
(* game.py:646-647 and 772-773 cancel mafia_check at most, and the tasks   *)
(* of the players go on waiting after the phase.  Cancelling the task of   *)
(* the game (Mafia.mafia_stop, mafia.py:103-115) ends the game task at the *)
(* asyncio.wait it is suspended in and cancels none of the other tasks.    *)
(* As in Spec, a task takes a message that names one of its choices.       *)
(* timer.clock counts the time since asyncio.wait was called.              *)
(***************************************************************************)
\* values of config.day_length and config.night_length
Lengths == {2, 4}

\* asyncio.wait is called: the first day, the second day or the first night
\* of a game in which nobody has died
TimerInit ==
    /\ config \in Configs
    /\ members = <<>>
    /\ todo = 0
    /\ notifs = <<>>
    /\ reports = {}
    /\ lingering = <<>>
    /\ votes = <<>>
    /\ \E c \in godfather_candidates(pick_players(config)) :
       \E len \in Lengths : \E forbids \in BOOLEAN :
       \E phase \in {"day", "night"} : \E d \in 1..2 :
          LET ps == choose_godfather(pick_players(config), c) IN
          /\ pc = phase
          /\ IF phase = "day"
             THEN /\ players = ps
                  /\ day = d
                  /\ pending = {i \in Alive(ps) :
                                   ps[i].role = "Jailor" /\ ps[i].jails > 0}
                  /\ phase_task = (d > 1)
                  /\ timer = [clock |-> 0,
                              timeout |-> IF d > 1 THEN len ELSE len \div 2,
                              wrappers |-> TRUE, forbids |-> forbids]
             ELSE /\ players = start_night_tasks(ps)
                  /\ day = 2
                  /\ pending = {i \in night_task_started(ps) : waits_at_night(ps[i])}
                  /\ phase_task = ~ps[godfather(ps)].night_role_blocked
                  /\ timer = [clock |-> 0, timeout |-> len,
                              wrappers |-> TRUE, forbids |-> forbids]
    /\ is_day = TRUE
    /\ nominations = [i \in DOMAIN players |-> 0]
    /\ nomination = None
    /\ unjailing = None
    /\ announced = {}
    /\ no_kill_note = FALSE
    /\ winners = {}
    /\ night_log = <<>>
    /\ night_base = IF pc = "night" THEN players ELSE <<>>
    /\ nominated_by = [i \in DOMAIN players |-> <<>>]
    /\ yes_votes = {}
    /\ no_votes = {}
    /\ cleaner_notes = {}

timer_rest == << players, is_day, day, pending, phase_task, nominations, nomination,
                unjailing, announced, no_kill_note, winners, night_log, night_base,
                nominated_by, yes_votes, no_votes, cleaner_notes, config, members, todo, notifs, reports, lingering, votes >>

\* asyncio.wait refuses the coroutines: TypeError out of the phase
WaitRaises ==
    /\ pc \in {"day", "night"}
    /\ timer.forbids
    /\ timer.wrappers
    /\ pc' = "crashed"
    /\ UNCHANGED << timer_rest, timer,
                    config, members, todo, notifs, reports, lingering, votes >>

\* the tasks wrapping the create_task coroutines run: each starts its
\* coroutine as a task of the loop and is done
WrappersRun ==
    /\ pc \in {"day", "night"}
    /\ ~timer.forbids
    /\ timer.wrappers
    /\ timer' = [timer EXCEPT !.wrappers = FALSE]
    /\ UNCHANGED << timer_rest, pc >>

\* what asyncio.wait still waits for: mafia_check until the godfather's
\* message has come
awaited ==
    IF timer.wrappers THEN {"create_task"} ELSE {}
      \cup IF pc = "night" /\ phase_task THEN {"mafia_check"} ELSE {}

\* asyncio.wait returns: everything it waits for is done, or the timeout
wait_returns ==
    /\ ~timer.forbids
    /\ ~timer.wrappers
    /\ awaited = {} \/ timer.clock >= timer.timeout

\* one unit of time passes while asyncio.wait is waiting
Tick ==
    /\ pc \in {"day", "night"}
    /\ ~timer.forbids
    /\ ~timer.wrappers
    /\ ~wait_returns
    /\ timer' = [timer EXCEPT !.clock = @ + 1]
    /\ UNCHANGED << timer_rest, pc >>

\* mafia_check, started by asyncio.wait, takes the godfather's message
TimedGodfatherKill == ~timer.forbids /\ ~timer.wrappers /\ GodfatherKill

\* the inputs the waiting task of player i takes: day_task of the Jailor,
\* night_task of the other roles and of a Jailor with somebody in jail
task_inputs(ps, i) ==
    CASE ps[i].role = "Doctor" -> {Act("protect", i, t) : t \in choices(ps, i)}
      [] ps[i].role = "Sheriff" -> {Act("shoot", i, t) : t \in choices(ps, i)}
      [] ps[i].role = "Survivor" -> {Act("vest", i, i)}
      [] ps[i].role = "Arsonist" -> {Act("arson", i, t) : t \in undoused(ps)}
      [] ps[i].role = "Janitor" -> {Act("clean", i, t) : t \in choices(ps, i)}
      [] ps[i].role = "Jailor" ->
            IF ps[i].jailed_player = None
            THEN {Act("jail", i, t) : t \in choices(ps, i)}
            ELSE {Act("execute", i, ps[i].jailed_player)}
      [] OTHER -> {}

\* the rest of the task once the input has come
apply_input(ps, a) ==
    IF a.kind = "jail" THEN Jailor_day_task(ps, a.actor, a.target)
    ELSE apply_night(ps, a)

\* the task of player i takes the input a and ends
task_runs(i, a) ==
    /\ i \in pending
    /\ a \in task_inputs(players, i)
    /\ players' = apply_input(players, a)
    /\ pending' = pending \ {i}
    /\ UNCHANGED << is_day, day, pc, phase_task, nominations, nomination,
                    unjailing, announced, no_kill_note, winners, night_base,
                    nominated_by, yes_votes, no_votes, cleaner_notes, timer,
                    config, members, todo, notifs, reports, lingering, votes >>

\* a task takes its input while the asyncio.wait of its phase is waiting
TimedInput ==
    /\ pc \in {"day", "night"}
    /\ ~timer.forbids
    /\ ~timer.wrappers
    /\ \E i \in pending : \E a \in task_inputs(players, i) :
          /\ task_runs(i, a)
          /\ night_log' = IF pc = "night" THEN Append(night_log, a) ELSE night_log

\* a task started in a phase takes its input after the asyncio.wait of the
\* phase has returned, or after the task of the game was cancelled
LateInput ==
    /\ pc \in {"check_day", "check_night", "stopped"}
    /\ \E i \in pending : \E a \in task_inputs(players, i) : task_runs(i, a)
    /\ UNCHANGED night_log

\* asyncio.wait of day_tasks returns: nothing is in the set `pending` it
\* returns, so nothing is cancelled
TimedDayEnd ==
    /\ wait_returns
    /\ \E r \in reactions(players) :
          day_end(r.yes \cup {bot_user(players)}, r.no \cup {bot_user(players)})
    /\ UNCHANGED << pending, phase_task, nominated_by, yes_votes, no_votes >>

\* asyncio.wait of night_tasks returns: mafia_check, when it is still
\* waiting, is the one task cancelled
TimedNightEnd ==
    /\ wait_returns
    /\ night_end
    /\ phase_task' = FALSE
    /\ UNCHANGED pending

\* Mafia.mafia_stop: task.cancel() on the task of the game, which is
\* suspended in the asyncio.wait of the phase
Stop ==
    /\ pc \in {"day", "night"}
    /\ ~timer.forbids
    /\ ~timer.wrappers
    /\ pc' = "stopped"
    /\ UNCHANGED << timer_rest, timer,
                    config, members, todo, notifs, reports, lingering, votes >>

TimerNext ==
    \/ WaitRaises
    \/ WrappersRun
    \/ Tick
    \/ TimedGodfatherKill
    \/ TimedInput
    \/ LateInput
    \/ TimedDayEnd
    \/ TimedNightEnd
    \/ Stop

TimerSpec == TimerInit /\ [][TimerNext]_vars

(***************************************************************************)
(* The filters of the night's choices.  A message of the player (of the    *)
(* godfather in the mafia chat) that names a player of the roster is       *)
(* passed to the filter; when the filter returns True, wait_for returns    *)
(* and the task goes on with the player the message names.  (As the        *)
(* callers are written, players.py:168-170 and game.py:617 pass the        *)
(* filters one argument more than they take.)                              *)
(***************************************************************************)
\* utils.private_channel_check.check on a message of `player` naming p
private_channel_check(ps, player, can_choose_self, p) ==
    IF ~can_choose_self /\ player = p THEN FALSE ELSE TRUE

\* utils.mafia_kill_check.check on a message of the godfather naming p
mafia_kill_check(ps, p) == IF is_mafia(ps[p].role) THEN FALSE ELSE TRUE

\* the input the night_task of role r records for a choice
choice_kind(r) ==
    CASE r = "Doctor" -> "protect"
      [] r = "Sheriff" -> "shoot"
      [] r = "Arsonist" -> "arson"
      [] OTHER -> "none"

\* `not only_others` of the role's call of wait_for_player
can_choose_self(r) == r = "Arsonist"

\* the tasks of Night(2) have been started; in Night(1) the godfather
\* killed nobody or one player
ChoiceInit ==
    /\ config \in Configs
    /\ members = <<>>
    /\ todo = 0
    /\ notifs = <<>>
    /\ reports = {}
    /\ lingering = <<>>
    /\ votes = <<>>
    /\ \E c \in godfather_candidates(pick_players(config)) :
          LET ps == choose_godfather(pick_players(config), c) IN
          \E v \in mafia_targets(ps) \cup {None} :
             /\ ~check_winner(second_day(ps, v), TRUE)
             /\ godfather(second_day(ps, v)) # None
             /\ players = start_night_tasks(second_day(ps, v))
             /\ pending = {i \in night_task_started(second_day(ps, v)) :
                              waits_at_night(second_day(ps, v)[i])}
    /\ phase_task = TRUE
    /\ night_base = players
    /\ is_day = TRUE
    /\ day = 3
    /\ pc = "night"
    /\ nominations = [i \in DOMAIN players |-> 0]
    /\ nomination = None
    /\ unjailing = None
    /\ announced = {}
    /\ no_kill_note = FALSE
    /\ winners = {}
    /\ night_log = <<>>
    /\ nominated_by = [i \in DOMAIN players |-> <<>>]
    /\ yes_votes = {}
    /\ no_votes = {}
    /\ cleaner_notes = {}
    /\ timer = no_timer

\* mafia_check: the filter passes a message of the godfather naming p
GodfatherNames ==
    /\ phase_task
    /\ \E p \in P :
          /\ mafia_kill_check(players, p)
          /\ NightInput(Act("mafia_kill", godfather(players), p))
    /\ phase_task' = FALSE
    /\ UNCHANGED pending

\* wait_for_player: the filter passes a message of player i naming p
PlayerNames ==
    \E i \in pending : \E p \in P :
        /\ choice_kind(players[i].role) # "none"
        /\ private_channel_check(players, i, can_choose_self(players[i].role), p)
        /\ PlayerInput(i, Act(choice_kind(players[i].role), i, p))

ChoiceNext == GodfatherNames \/ PlayerNames \/ NightEnd

ChoiceSpec == ChoiceInit /\ [][ChoiceNext]_vars

(***************************************************************************)
(* C1: a kill recorded against a living player and resolved at pre_day     *)
(* kills the target if and only if the attacker's attack tier is strictly  *)
(* greater than the target's defense tier for the cycle.                   *)
(* The code takes the "saved" branch exactly when the attack is stronger   *)
(* than the protection, so this fails.                                     *)
(***************************************************************************)
C1_KillIffAttackBeatsDefense ==
    [][ (pc = "pre_day" /\ pc' = "check_pre_day" /\ day > 1) =>
          \A i \in P :
             (~players[i].dead /\ players[i].killed_by # None) =>
                (players'[i].dead <=> AttackOn(players, i) > DefenseOf(players, i))
      ]_vars

(***************************************************************************)
(* C2: the players dead after pre_day, and the killer recorded for each,   *)
(* are the same for every order in which the night's inputs could have     *)
(* been submitted.  Fails: the godfather's kill is refused when the        *)
(* protection is already recorded and stands when it is recorded later.    *)
(***************************************************************************)
C2_NightOrderIndependent ==
    (pc = "check_pre_day" /\ day > 1) =>
        \A f \in Perms(Len(night_log)) :
            DeadWithKiller(Resolved(Replay(night_base, night_log, f, 1)))
              = DeadWithKiller(players)

(***************************************************************************)
(* C3: when the Doctor protects a player and the godfather targets the     *)
(* same player in one night (nobody shoots that night), the player is      *)
(* alive after pre_day, no death is announced for them, and "No one was    *)
(* killed last night!" is published.  Fails when the godfather's input     *)
(* comes before the Doctor's.                                              *)
(***************************************************************************)
DoctorAndGodfatherOn(t) ==
    /\ \E k \in 1..Len(night_log) :
          night_log[k].kind = "protect" /\ night_log[k].target = t
    /\ \E k \in 1..Len(night_log) :
          night_log[k].kind = "mafia_kill" /\ night_log[k].target = t
    /\ \A k \in 1..Len(night_log) : night_log[k].kind \in {"protect", "mafia_kill"}

C3_DoctorSavesFromGodfather ==
    (pc = "check_pre_day" /\ day > 1) =>
        \A t \in P :
            DoctorAndGodfatherOn(t) =>
                ~players[t].dead /\ t \notin announced /\ no_kill_note

(***************************************************************************)
(* C4: after every resolution step (pre_day, the lynch of day_tasks), if a *)
(* mafia-aligned player is alive then exactly one living mafia-aligned     *)
(* player is godfather.  Fails: choose_godfather draws among all plain     *)
(* mafia of the roster, dead ones included.                                *)
(***************************************************************************)
C4_GodfatherUniqueAfterResolution ==
    (pc \in {"check_pre_day", "check_day"} /\ LivingMafia(players) # {}) =>
        Cardinality({i \in LivingMafia(players) : players[i].is_godfather}) = 1

(***************************************************************************)
(* C5: in a step in which the godfather dies (night resolution or lynch),  *)
(* a player who becomes godfather is a living mafia-aligned player.        *)
(* Fails: a plain mafia who died earlier can be drawn.                     *)
(***************************************************************************)
C5_SuccessorIsLivingMafia ==
    [][ (godfather(players) # None /\ players'[godfather(players)].dead) =>
          \A i \in P :
             (players'[i].is_godfather /\ ~players[i].is_godfather) =>
                (~players'[i].dead /\ is_mafia(players'[i].role))
      ]_vars

(***************************************************************************)
(* C6: when the only (living) mafia are special mafia, one of them is the  *)
(* godfather: after Preparation and after every resolution step.  Fails:   *)
(* special mafia are never candidates, and with no plain mafia in the      *)
(* roster choose_godfather raises IndexError in _start.                    *)
(***************************************************************************)
C6_SpecialMafiaBecomeGodfather ==
    ( /\ pc \in {"pre_day", "check_pre_day", "check_day", "crashed"}
      /\ LivingMafia(players) # {}
      /\ \A i \in LivingMafia(players) : players[i].role \in special_mafia ) =>
        \E i \in LivingMafia(players) : players[i].is_godfather

(***************************************************************************)
(* C7: at the win check that follows the night's tasks the mafia win       *)
(* condition is true if and only if the living mafia are strictly more     *)
(* than half of the living players.  Fails: is_day is never set to False,  *)
(* so the day rule is used at every check.                                 *)
(***************************************************************************)
C7_NightRuleAfterNight ==
    pc = "check_night" =>
        \A i \in P :
            is_mafia(players[i].role) =>
                ( win_condition(players, i, is_day)
                    <=> 2 * total_mafia(players) > total_alive(players) )

(***************************************************************************)
(* C8: in every state of a Day, the win condition of every mafia-aligned   *)
(* player is false while a living player has can_kill_mafia_at_night.      *)
(***************************************************************************)
C8_NoMafiaWinWhileKillerAlive ==
    ( /\ pc \in DayStates
      /\ \E k \in Alive(players) : can_kill_mafia_at_night(players[k].role) ) =>
        \A i \in P : is_mafia(players[i].role) => ~win_condition(players, i, is_day)

\* a Day state with a living Sheriff in which the mafia are more than half
\* of the living players
C8_Witness ==
    /\ pc = "check_day"
    /\ \E k \in Alive(players) : players[k].role = "Sheriff"
    /\ 2 * total_mafia(players) > total_alive(players)

(***************************************************************************)
(* C9: the game enters Resolution only from a win check at which the win   *)
(* condition of a player whose win is not simultaneous is true, and from   *)
(* such a check it goes nowhere else.                                      *)
(***************************************************************************)
C9_ResolutionExactlyAtWinningCheck ==
    [][ /\ (pc' = "resolution" /\ pc # "resolution") =>
             (pc \in WinChecks /\ SomeNonSimultaneousWin)
        /\ (pc \in WinChecks /\ SomeNonSimultaneousWin /\ pc' # pc) =>
             pc' = "resolution"
      ]_vars

\* Resolution reached at the check after a later day's tasks, after earlier
\* checks at which nobody had won
C9_Witness ==
    /\ pc = "resolution"
    /\ day > 1
    /\ \E i \in P : players[i].lynched
    /\ SomeNonSimultaneousWin

(***************************************************************************)
(* C10: at Resolution the winners reported are exactly the players whose   *)
(* win condition is true, dead or alive; one of them has a win that is not *)
(* simultaneous, and every living Survivor is among them.                  *)
(***************************************************************************)
C10_WinnersAtResolution ==
    pc = "resolution" =>
        /\ \A i \in P : i \in winners <=> win_condition(players, i, is_day)
        /\ \E i \in winners : ~win_is_multi(players[i].role)
        /\ \A i \in Alive(players) : players[i].role = "Survivor" => i \in winners

\* a living Survivor reported together with the mafia, a dead player of
\* which is reported too
C10_Witness ==
    /\ pc = "resolution"
    /\ \E i \in winners : players[i].role = "Survivor"
    /\ \E i \in winners : is_mafia(players[i].role)
    /\ \E i \in P : players[i].dead

(***************************************************************************)
(* C11: when the game ends after a Jester was lynched, the Jester is       *)
(* reported as a winner together with a player of another alignment whose  *)
(* win condition triggered: the lynch alone does not end the game.         *)
(* Fails: Jester does not set win_is_multi, so check_winner is true at the *)
(* check that follows the lynch and the Jester is the only winner.         *)
(***************************************************************************)
C11_LynchedJesterWinsWithAnother ==
    ( /\ pc = "resolution"
      /\ \E j \in P : players[j].role = "Jester" /\ players[j].lynched ) =>
        /\ \A j \in P : players[j].role = "Jester" => j \in winners
        /\ \E i \in winners : players[i].role # "Jester"

LivingVotes(users) == Cardinality({u \in users : u \in P /\ ~players[u].dead})

C16_CleanedDeathIsPrivate ==
    [][ pc = "pre_day" =>
          \A i \in P :
             ( /\ ~players[i].dead
               /\ players'[i].dead
               /\ players[i].cleaned_by # None ) =>
                 /\ i \notin announced'
                 /\ << players[i].cleaned_by, i, players[i].role >> \in cleaner_notes'
      ]_vars

\* pre_day has resolved a night whose only death was cleaned: the cleaner
\* was told, nobody was announced, "No one was killed last night!" was sent
C16_Witness ==
    /\ pc = "check_pre_day"
    /\ \E i \in P :
          /\ players[i].dead
          /\ players[i].cleaned_by # None
          /\ i \notin announced
          /\ << players[i].cleaned_by, i, players[i].role >> \in cleaner_notes
    /\ no_kill_note

(***************************************************************************)
(* C17: when the tasks of a night are started, the task of a living        *)
(* Janitor who is not role-blocked and has cleans left waits for the       *)
(* target to clean (and then records it and takes one clean off).          *)
(* Fails: the task returns at once while cleans <= 3, and cleans starts at *)
(* 3 and only ever decreases.                                              *)
(***************************************************************************)
C17_JanitorIsAskedForTarget ==
    [][ (pc = "night_tasks" /\ pc' = "night") =>
          \A j \in P :
             ( /\ players[j].role = "Janitor"
               /\ ~players[j].dead
               /\ ~players[j].night_role_blocked
               /\ players[j].cleans > 0 ) => j \in pending'
      ]_vars

(***************************************************************************)
(* C18: when the Arsonist has ignited in the night that just ended, every  *)
(* player who was alive and doused when the night began is dead once       *)
(* pre_day has resolved the night, whatever protects them.                 *)
(* Fails: pre_day takes the "saved" branch when the attack is stronger     *)
(* than the protection (C1), so a doused player who is protected lives.    *)
(***************************************************************************)
Ignited ==
    \E k \in 1..Len(night_log) :
        night_log[k].kind = "arson" /\ night_log[k].target = night_log[k].actor

C18_IgnitedDousedPlayersDie ==
    (pc = "check_night" /\ Ignited) =>
        \A i \in P :
            (night_base[i].doused /\ ~night_base[i].dead) =>
                Resolved(players)[i].dead

(***************************************************************************)
(* C19: the counter is 1 in Preparation; Preparation is followed by        *)
(* Day(1), Day(n) by Night(n) and Night(n) by Day(n+1), until Resolution;  *)
(* the counter goes up by exactly one in each Day+Night pair (the code     *)
(* advances it between the Day and its Night, so during Night(n) _day      *)
(* holds n + 1, and night_notification shows _day - 1).                    *)
(***************************************************************************)
DayPhase == {"pre_day"} \cup DayStates

NightPhase == {"night_tasks", "night", "check_night"}

\* the number of the cycle a state of a Day or of a Night belongs to
CycleOf(p, d) == IF p \in NightPhase THEN d - 1 ELSE d

C19_PhasesAlternate ==
    [][ /\ pc = "start" =>
             /\ day = 1
             /\ pc' \in {"start", "crashed"} \cup DayPhase
             /\ day' = 1
        /\ pc \in DayPhase =>
             /\ pc' \in DayPhase \cup NightPhase \cup {"resolution", "crashed"}
             /\ pc' \in DayPhase \cup NightPhase => CycleOf(pc', day') = CycleOf(pc, day)
             /\ day' = IF pc' \in NightPhase THEN day + 1 ELSE day
        /\ pc \in NightPhase =>
             /\ pc' \in NightPhase \cup DayPhase \cup {"resolution", "crashed"}
             /\ pc' \in NightPhase => CycleOf(pc', day') = CycleOf(pc, day)
             /\ pc' \in DayPhase => CycleOf(pc', day') = CycleOf(pc, day) + 1
             /\ day' = day
        /\ pc = "resolution" => pc' = "resolution"
      ]_vars

\* Night(2) is running, after Day(1), Night(1) and Day(2)
C19_Witness ==
    /\ pc = "night"
    /\ day = 3

(***************************************************************************)
(* C20: a Day or a Night is resolved (its asyncio.wait returns and the     *)
(* phase's results are taken) only when the length the phase was given has *)
(* fully elapsed since the wait began.                                     *)
(* Fails: the sleep of the phase is not among the tasks asyncio.wait waits *)
(* for, so the wait of a Day returns at once and that of a Night as soon   *)
(* as the godfather has chosen.                                            *)
(***************************************************************************)
C20_PhaseLastsItsLength ==
    [][ (pc \in {"day", "night"} /\ pc' \in {"check_day", "check_night"}) =>
          timer.clock >= timer.timeout
      ]_vars

(***************************************************************************)
(* C21: when the wait of a phase ends, every task of the phase that is     *)
(* still waiting for a player is cancelled, so that no task is left and no *)
(* player's state changes once the phase has ended.                        *)
(* Fails: the tasks of the players are started by the create_task          *)
(* coroutines and are not among the tasks asyncio.wait returns as pending; *)
(* they are never cancelled and take their input after the phase.          *)
(***************************************************************************)
C21_OutstandingTasksCancelled ==
    [][ /\ (pc \in {"day", "night"} /\ pc' \in {"check_day", "check_night"}) =>
             (pending' = {} /\ ~phase_task')
        /\ pc \in {"check_day", "check_night"} => players' = players
      ]_vars

(***************************************************************************)
(* C22: a player who has submitted a choice in a night may submit again    *)
(* before the night ends: the task that took the choice (mafia_check for   *)
(* the godfather, the night_task of the player otherwise) goes on waiting  *)
(* for a later choice, which would replace the first.                      *)
(* Fails: every task waits for one message and ends once it has acted on   *)
(* it; a second message finds no task, and the first choice stands.        *)
(***************************************************************************)
C22_LaterSubmissionAccepted ==
    [][ (pc = "night" /\ pc' = "night" /\ Len(night_log') > Len(night_log)) =>
          LET a == night_log'[Len(night_log')] IN
          IF a.kind = "mafia_kill" THEN phase_task' ELSE a.actor \in pending'
      ]_vars

Transient(pl) ==
    << pl.killed_by, pl.protected_by, pl.cleaned_by, pl.disguised_as, pl.visited_by >>

C24_DeadPlayersLedgerFrozen ==
    [][ \A i \in P :
           players[i].dead => Transient(players'[i]) = Transient(players[i])
      ]_vars

C26_RosterFixedDeathMonotonic ==
    [][ /\ Len(players') = Len(players)
        /\ \A i \in P :
              /\ players'[i].role = players[i].role
              /\ players[i].dead => players'[i].dead
              /\ players'[i].lynched => players'[i].dead
      ]_vars

\* Night(2) with a player who was killed in Night(1) and another who was
\* lynched in Day(2)
C26_Witness ==
    /\ pc = "night"
    /\ day = 3
    /\ \E i \in P : players[i].dead /\ ~players[i].lynched
    /\ \E i \in P : players[i].lynched

(***************************************************************************)
(* PickSpec: MafiaGame.pick_players (game.py:197-213) step by step, on the *)
(* member pool itself.  A configuration is MafiaGameConfig's starting_mafia *)
(* and special_roles, with the number of members who joined; special_roles *)
(* is the list _prepare builds from the amounts chosen per role, in the    *)
(* order of __special_roles__ (game.py:512).                               *)
(***************************************************************************)
\* Most special roles of one configuration.
MaxSpecial == 3

\* Most members who join a game.
MaxMembers == 4

\* _setup_amount_players: minimum_players_needed
minimum_players_needed == 3

\* the roles of __special_roles__ that the configurations choose among
special_roles_catalog == <<"Janitor", "Disguiser", "Doctor">>

\* [role for (role, amt) in special_roles for i in range(amt)]
RECURSIVE special_roles_list(_, _)
special_roles_list(amts, k) ==
    IF k > Len(special_roles_catalog) THEN <<>>
    ELSE [i \in 1..amts[k] |-> special_roles_catalog[k]]
         \o special_roles_list(amts, k + 1)

\* _setup_amount_mafia accepts 1 .. int(players / 2)
PickConfigs ==
    LET all == { [special_roles |-> special_roles_list(amts, 1),
                  starting_mafia |-> s, members |-> n]
                 : amts \in {a \in [1..Len(special_roles_catalog) -> 0..MaxSpecial] :
                               Len(special_roles_list(a, 1)) <= MaxSpecial},
                   n \in minimum_players_needed..MaxMembers,
                   s \in 1..(MaxMembers \div 2) }
    IN  {c \in all : c.starting_mafia <= c.members \div 2}

\* random.shuffle: any order of the n members
shuffle(n) ==
    {f \in [1..n -> 1..n] : \A i, j \in 1..n : i # j => f[i] # f[j]}

\* self._members.pop(): the last element; IndexError on an empty list
pop_member == members[Len(members)]
pop_rest == SubSeq(members, 1, Len(members) - 1)

mafia_range_IgnoreSpecial(cfg, ps) == cfg.starting_mafia

\* range(self._config.starting_mafia - self.total_mafia)
mafia_range(cfg, ps) == cfg.starting_mafia - total_mafia(ps)

PickInit ==
    /\ config \in PickConfigs
    /\ members \in shuffle(config.members)
    /\ todo = 0
    /\ notifs = <<>>
    /\ reports = {}
    /\ lingering = <<>>
    /\ votes = <<>>
    /\ players = <<>>
    /\ is_day = TRUE
    /\ day = 1
    /\ pc = "pick_special"
    /\ pending = {}
    /\ phase_task = FALSE
    /\ nominations = <<>>
    /\ nomination = None
    /\ unjailing = None
    /\ announced = {}
    /\ no_kill_note = FALSE
    /\ winners = {}
    /\ night_log = <<>>
    /\ night_base = <<>>
    /\ nominated_by = <<>>
    /\ yes_votes = {}
    /\ no_votes = {}
    /\ cleaner_notes = {}
    /\ timer = no_timer

pick_rest == << is_day, day, pending, phase_task, nominations, nomination,
                unjailing, announced, no_kill_note, winners, night_log, night_base,
                nominated_by, yes_votes, no_votes, cleaner_notes, timer, config, notifs,
                reports, lingering, votes >>

\* one pass of a loop body: pop a member and append the player of role r
pick(r) ==
    IF members = <<>>
    THEN pc' = "crashed" /\ UNCHANGED << players, members >>
    ELSE /\ players' = Append(players, NewPlayer(r, pop_member))
         /\ members' = pop_rest
         /\ UNCHANGED pc

\* for role in self._config.special_roles
PickSpecial ==
    /\ pc = "pick_special"
    /\ Len(players) < Len(config.special_roles)
    /\ pick(config.special_roles[Len(players) + 1])
    /\ UNCHANGED << pick_rest, todo >>

\* the range of the second loop is computed once, when the first has ended
PickMafiaRange ==
    /\ pc = "pick_special"
    /\ Len(players) = Len(config.special_roles)
    /\ todo' = mafia_range(config, players)
    /\ pc' = "pick_mafia"
    /\ UNCHANGED << pick_rest, players, members >>

\* for i in range(...): the plain mafia
PickMafia ==
    /\ pc = "pick_mafia"
    /\ todo > 0
    /\ pick("Mafia")
    /\ todo' = todo - 1
    /\ UNCHANGED pick_rest

\* while self._members: the citizens
PickCitizen ==
    /\ pc = "pick_mafia"
    /\ todo <= 0
    /\ members # <<>>
    /\ pick("Citizen")
    /\ UNCHANGED << pick_rest, todo >>

PickReturn ==
    /\ pc = "pick_mafia"
    /\ todo <= 0
    /\ members = <<>>
    /\ pc' = "picked"
    /\ UNCHANGED << pick_rest, players, members, todo >>

PickNext == PickSpecial \/ PickMafiaRange \/ PickMafia \/ PickCitizen \/ PickReturn

PickSpec == PickInit /\ [][PickNext]_vars

(***************************************************************************)
(* C27: for every configuration whose special roles and mafia count fit in *)
(* the member pool, pick_players gives each member exactly one player,     *)
(* each special role as many times as configured, as many mafia-aligned    *)
(* players (special mafia included) as the configured mafia count, and the *)
(* plain citizen role to every member left.                                *)
(* Fails as worded: special roles are assigned before the mafia count is   *)
(* looked at, so a configuration with more special mafia than the mafia    *)
(* count fits in the pool and ends with more mafia than configured.        *)
(***************************************************************************)
\* the members pick_players pops for cfg are no more than the pool holds
Fits(cfg) ==
    LET sm == NumMafia(cfg.special_roles) IN
    Len(cfg.special_roles)
      + (IF cfg.starting_mafia > sm THEN cfg.starting_mafia - sm ELSE 0) <= cfg.members

Assigned(r) == Cardinality({i \in P : players[i].role = r})

Configured(r) ==
    Cardinality({k \in 1..Len(config.special_roles) : config.special_roles[k] = r})

RoleAssignment ==
    /\ Len(players) = config.members
    /\ \A m \in 1..config.members : Cardinality({i \in P : players[i].member = m}) = 1
    /\ \A k \in 1..Len(special_roles_catalog) :
          Assigned(special_roles_catalog[k]) = Configured(special_roles_catalog[k])
    /\ Cardinality({i \in P : is_mafia(players[i].role)}) = config.starting_mafia
    /\ Assigned("Citizen") = config.members - Len(config.special_roles) - Assigned("Mafia")
    /\ \A i \in P : players[i].role \in
          {"Citizen", "Mafia"} \cup {special_roles_catalog[k] : k \in 1..Len(special_roles_catalog)}

\* the claim as worded
C27_RoleAssignment ==
    Fits(config) => /\ pc # "crashed"
                    /\ pc = "picked" => RoleAssignment

\* the claim for the configurations whose special mafia are no more than the
\* configured mafia count
C27_RoleAssignmentWithinMafiaCount ==
    (Fits(config) /\ NumMafia(config.special_roles) <= config.starting_mafia)
        => /\ pc # "crashed"
           /\ pc = "picked" => RoleAssignment

C27_Witness ==
    /\ pc = "picked"
    /\ Fits(config)
    /\ NumMafia(config.special_roles) <= config.starting_mafia
    /\ \E i \in P : players[i].role \in special_mafia
    /\ \E i \in P : players[i].role = "Mafia"
    /\ \E i \in P : players[i].role = "Doctor"
    /\ \E i \in P : players[i].role = "Citizen"
    /\ players[1].member # 1 /\ players[1].member # config.members

(***************************************************************************)
(* C28: once the loop of _start is running, no step of a phase ends in an  *)
(* error: the game goes on or reaches Resolution.                          *)
(* Fails: choose_godfather draws among all the plain mafia of the roster,  *)
(* the dead included (C4, C5); when it draws the godfather who has just    *)
(* died, game.py:712 takes the flag off again, no living player is         *)
(* godfather, and the next night_tasks raises AttributeError at            *)
(* game.py:606.                                                            *)
(***************************************************************************)
C28_NoPhaseFails ==
    [][ pc \notin {"start", "crashed"} => pc' # "crashed" ]_vars

(***************************************************************************)
(* C30: once the game has been stopped, no task of the game is in flight   *)
(* (no player's task, no mafia_check, no nominate_player is waiting) and   *)
(* no player's state changes any more.  (The entry of the game in          *)
(* Mafia.games is removed at mafia.py:112; the model does not follow it.)  *)
(* Fails: mafia_stop cancels the task of the game only; the tasks the      *)
(* phase has started are tasks of their own, go on waiting and act on the  *)
(* players when their input comes.                                         *)
(***************************************************************************)
C30_NothingInFlightAfterStop ==
    [][ /\ (pc # "stopped" /\ pc' = "stopped") => (pending' = {} /\ ~phase_task')
        /\ pc = "stopped" => players' = players
      ]_vars

(***************************************************************************)
(* C29: a choice naming a dead player, the player itself (where the task   *)
(* does not allow it) or, for the godfather, a mafia member is not         *)
(* accepted: every target a task of the night has recorded was alive when  *)
(* the night began, is not the actor unless the Arsonist ignites, and is   *)
(* no mafia member when the godfather kills.                               *)
(* Fails: neither filter tests `dead`; a message naming a dead player is   *)
(* passed and the task records its action on that player.                  *)
(***************************************************************************)
C29_InvalidChoiceRejected ==
    pc \in {"night", "check_night"} =>
        \A k \in 1..Len(night_log) :
            LET a == night_log[k] IN
            /\ a.target # a.actor => ~night_base[a.target].dead
            /\ a.kind \in {"protect", "shoot"} => a.target # a.actor
            /\ a.kind = "mafia_kill" => ~is_mafia(players[a.target].role)

(***************************************************************************)
(* C31: at each pre_day after the first, every player who dies at that     *)
(* resolution without having been cleaned is named in exactly one entry of *)
(* the published notifications, and that entry names the role of the       *)
(* killer recorded for them; "No one was killed last night!" is published   *)
(* if and only if no death was announced at that resolution.               *)
(***************************************************************************)
\* the entries of the notifications that name player i
NotifsOf(nts, i) == {k \in 1..Len(nts) : nts[k][1] = i}

C31_UncleanedDeathAnnouncedWithKiller ==
    [][ (pc = "pre_day" /\ day > 1 /\ pc' = "check_pre_day") =>
          /\ \A i \in P :
                (~players[i].dead /\ players'[i].dead /\ players[i].cleaned_by = None)
                  => /\ Cardinality(NotifsOf(notifs', i)) = 1
                     /\ \A k \in NotifsOf(notifs', i) :
                           notifs'[k][2] = players[players[i].killed_by].role
                     /\ i \in announced'
          /\ no_kill_note' <=> (announced' = {} /\ notifs' = <<>>) ]_vars

\* a night in which two players were killed by different roles has been
\* resolved and announced
C31_Witness ==
    /\ pc = "check_pre_day"
    /\ day > 1
    /\ Len(notifs) = 2
    /\ notifs[1][2] # notifs[2][2]
    /\ \A k \in 1..2 : players[notifs[k][1]].dead
    /\ ~no_kill_note

(***************************************************************************)
(* RoleSpec: the game from its start, for configurations with the          *)
(* Disguiser, the Sheriff, the PI, the Jailor and the Lookout.             *)
(***************************************************************************)
RoleConfigs ==
    { [special_roles |-> <<"Disguiser", "Sheriff", "PI">>, starting_mafia |-> 2,
       members |-> 4],
      [special_roles |-> <<"Sheriff", "Jailor", "Lookout">>, starting_mafia |-> 1,
       members |-> 4] }

RoleInit ==
    /\ config \in RoleConfigs
    /\ members = <<>>
    /\ todo = 0
    /\ notifs = <<>>
    /\ reports = {}
    /\ lingering = <<>>
    /\ votes = <<>>
    /\ players = pick_players(config)
    /\ is_day = TRUE
    /\ day = 1
    /\ pc = "start"
    /\ pending = {}
    /\ phase_task = FALSE
    /\ nominations = [i \in DOMAIN players |-> 0]
    /\ nomination = None
    /\ unjailing = None
    /\ announced = {}
    /\ no_kill_note = FALSE
    /\ winners = {}
    /\ night_log = <<>>
    /\ night_base = <<>>
    /\ nominated_by = [i \in DOMAIN players |-> <<>>]
    /\ yes_votes = {}
    /\ no_votes = {}
    /\ cleaner_notes = {}
    /\ timer = no_timer

RoleNext ==
    \/ Start
    \/ PreDay
    \/ CheckAfterPreDay
    \/ DayTasksStart
    \/ JailorJail
    \/ Nominate
    \/ DayEnd
    \/ CheckAfterDay
    \/ NightTasksStart
    \/ GodfatherKill
    \/ SheriffShoot
    \/ JailorExecute
    \/ DisguiserDisguise
    \/ PIInvestigate
    \/ LookoutWatch
    \/ NightEnd
    \/ CheckAfterNight
    \/ Unjail

RoleSpec == RoleInit /\ [][RoleNext]_vars

(***************************************************************************)
(* C32: in the cycle in which a Disguiser disguises a mafia member as a    *)
(* player who is not mafia, every alignment-dependent check made on that   *)
(* member in that cycle (the Sheriff's shot, the PI's comparison) treats   *)
(* the member as having the alignment of the player they are disguised as, *)
(* whether the check came before or after the disguise in that night.      *)
(* Fails: the Sheriff tests disguised_as when the shot comes, so a shot    *)
(* before the disguise kills the member, and the PI never looks at         *)
(* disguised_as.                                                           *)
(***************************************************************************)
\* the player whose alignment x shows while disguised
Apparent(ps, x) == IF ps[x].disguised_as # None THEN ps[x].disguised_as ELSE x

C32_DisguiseHoldsForTheCycle ==
    pc \in {"night", "check_night"} =>
      \A m \in P :
        (players[m].disguised_as # None /\ is_mafia(players[m].role)) =>
          /\ \A k \in 1..Len(night_log) :
                (/\ night_log[k].kind = "shoot"
                 /\ night_log[k].target = m
                 /\ is_citizen(players[players[m].disguised_as].role))
                  => players[m].killed_by # night_log[k].actor
          /\ \A r \in reports :
                (r.day = day /\ r.kind = "alignment" /\ m \in {r.first, r.second})
                  => (r.same <=> same_alignment(players, Apparent(players, r.first),
                                                Apparent(players, r.second)))

(***************************************************************************)
(* C33: a Lookout who chose a target during Night(n) receives, after that  *)
(* night, a report listing exactly the players who visited the target in   *)
(* Night(n), computed from the visit list as it stood when the night's     *)
(* inputs had been recorded.                                               *)
(* Fails: _cycle hands post_night_task to ctx.create_task, a coroutine     *)
(* function whose coroutine is never awaited (game.py:544, utils.py:18),   *)
(* so no post_night_task runs and the Lookout is sent nothing.             *)
(***************************************************************************)
\* the ledger at the end of the night whose inputs are in night_log
NightLedger == Replay(night_base, night_log, [k \in 1..Len(night_log) |-> k], 1)

C33_LookoutReportAfterNight ==
    (pc = "check_pre_day" /\ day > 1) =>
       \A k \in 1..Len(night_log) :
          night_log[k].kind = "watch" =>
             Lookout_post_night_task(NightLedger, night_log[k].actor, day) \in reports

(***************************************************************************)
(* C34: when the Sheriff shoots at night, a target who is citizen-aligned  *)
(* (or disguised as a citizen-aligned player) leaves the Sheriff dead      *)
(* after the following pre_day and is not killed by the Sheriff, and a     *)
(* target who is an undisguised mafia member is dead after the following   *)
(* pre_day.                                                                *)
(* Fails: a jailed mafia member shot by the Sheriff and then executed by   *)
(* the Jailor has the Jailor as killer and as protector, and the test of   *)
(* game.py:663-666 (C1) counts them as saved.                              *)
(***************************************************************************)
\* the ledger of the night when its k-th input came
LedgerBefore(k) ==
    Replay(night_base, SubSeq(night_log, 1, k - 1), [j \in 1..(k - 1) |-> j], 1)

\* the target of a shot shows as citizen-aligned when the shot comes
ShowsCitizen(ps, t) ==
    \/ is_citizen(ps[t].role)
    \/ ps[t].disguised_as # None /\ is_citizen(ps[ps[t].disguised_as].role)

C34_SheriffShotOutcome ==
    (pc = "check_pre_day" /\ day > 1) =>
       \A k \in 1..Len(night_log) :
          night_log[k].kind = "shoot" =>
             LET s == night_log[k].actor
                 t == night_log[k].target
             IN  /\ ShowsCitizen(LedgerBefore(k), t)
                       => players[s].dead /\ players[t].killed_by # s
                 /\ (/\ is_mafia(players[t].role)
                     /\ LedgerBefore(k)[t].disguised_as = None
                     /\ NightLedger[t].disguised_as = None)
                       => players[t].dead

(***************************************************************************)
(* C35: if the Jailor says Execute during the night while a player jailed  *)
(* that day is in jail, that player is dead after the following pre_day    *)
(* with the Jailor recorded as the killer.                                 *)
(* Fails: Player.jail records the Jailor as protector, the execution       *)
(* records the Jailor as killer, and game.py:663-666 (C1) takes an attack  *)
(* stronger than the protection for a rescue.                              *)
(***************************************************************************)
C35_ExecutedPlayerDies ==
    (pc = "check_pre_day" /\ day > 1) =>
       \A k \in 1..Len(night_log) :
          night_log[k].kind = "execute" =>
             /\ players[night_log[k].target].dead
             /\ players[night_log[k].target].killed_by = night_log[k].actor

(***************************************************************************)
(* C36: at every reachable state of a game at most one living player has   *)
(* the godfather designation (choose_godfather never clears the flags of   *)
(* other players).                                                         *)
(***************************************************************************)
C36_AtMostOneLivingGodfather ==
    Cardinality({i \in Alive(players) : players[i].is_godfather}) <= 1

\* the godfather has been lynched and keeps the flag; another mafia member,
\* alive, has been drawn
C36_Witness ==
    \E i, j \in P :
        /\ players[i].is_godfather /\ players[i].lynched
        /\ players[j].is_godfather /\ ~players[j].dead

(***************************************************************************)
(* EndSpec: the second night of a game and the pre_day that resolves it,   *)
(* up to the win check after that pre_day.                                 *)
(***************************************************************************)
EndConfigs ==
    Configs \cup
    { [special_roles |-> <<"Sheriff">>, starting_mafia |-> 1, members |-> 3] }

\* the tasks of Night(2) have been started; in Night(1) the godfather
\* killed nobody or one player
EndInit ==
    /\ config \in EndConfigs
    /\ members = <<>>
    /\ todo = 0
    /\ notifs = <<>>
    /\ reports = {}
    /\ lingering = <<>>
    /\ votes = <<>>
    /\ \E c \in godfather_candidates(pick_players(config)) :
          LET ps == choose_godfather(pick_players(config), c) IN
          \E v \in mafia_targets(ps) \cup {None} :
             /\ ~check_winner(second_day(ps, v), TRUE)
             /\ godfather(second_day(ps, v)) # None
             /\ players = start_night_tasks(second_day(ps, v))
             /\ pending = {i \in night_task_started(second_day(ps, v)) :
                              waits_at_night(second_day(ps, v)[i])}
    /\ phase_task = TRUE
    /\ night_base = players
    /\ is_day = TRUE
    /\ day = 3
    /\ pc = "night"
    /\ nominations = [i \in DOMAIN players |-> 0]
    /\ nomination = None
    /\ unjailing = None
    /\ announced = {}
    /\ no_kill_note = FALSE
    /\ winners = {}
    /\ night_log = <<>>
    /\ nominated_by = [i \in DOMAIN players |-> <<>>]
    /\ yes_votes = {}
    /\ no_votes = {}
    /\ cleaner_notes = {}
    /\ timer = no_timer

\* the check after Night(2); the cycle of Day(3) begins
EndCheckAfterNight == pc = "check_night" /\ check_after_night(3)

\* the check after the pre_day of Day(3), where EndSpec stops
EndCheckAfterPreDay == day = 3 /\ CheckAfterPreDay

EndNext ==
    \/ GodfatherKill
    \/ DoctorProtect
    \/ SheriffShoot
    \/ SurvivorVest
    \/ ArsonistAct
    \/ NightEnd
    \/ EndCheckAfterNight
    \/ PreDay
    \/ EndCheckAfterPreDay

EndSpec == EndInit /\ [][EndNext]_vars

(***************************************************************************)
(* C37: at Resolution the mafia and the citizens are never both reported   *)
(* as winners: in no final state are Citizen.win_condition and             *)
(* Mafia.win_condition both true.                                          *)
(* Fails when a night leaves nobody alive: no mafia lives, and 0 >= 0 / 2. *)
(***************************************************************************)
C37_MafiaAndCitizensNeverBothWin ==
    pc = "resolution" =>
       /\ ~(Citizen_win_condition(players) /\ Mafia_win_condition(players, is_day))
       /\ ~\E i, j \in winners :
              is_mafia(players[i].role) /\ is_citizen(players[j].role)

(***************************************************************************)
(* C38: a player's dead flag changes only at the two resolution points     *)
(* (the night's resolution in pre_day, the lynch at the end of day_tasks)  *)
(* and never while actions are being collected; a player becomes dead at   *)
(* the night's resolution only if a kill was recorded against them in that *)
(* cycle, and a player against whom no kill was recorded and who was not   *)
(* lynched is still alive after it.                                        *)
(***************************************************************************)
C38_DeathOnlyAtResolutionPoints ==
    [][ \A i \in P :
          /\ players'[i].dead # players[i].dead =>
                \/ pc = "pre_day" /\ day > 1
                \/ pc = "day" /\ pc' = "check_day" /\ players'[i].lynched
          /\ (pc = "pre_day" /\ ~players[i].dead /\ players'[i].dead) =>
                /\ players[i].killed_by # None
                /\ night_base[i].killed_by = None
          /\ (pc = "pre_day" /\ ~players[i].dead /\ players[i].killed_by = None) =>
                ~players'[i].dead
          /\ (pc = "day" /\ ~players[i].dead /\ ~players'[i].lynched) =>
                ~players'[i].dead
      ]_vars

\* the second day has ended with a lynching, after a night in which another
\* player was killed and a third was left alone
C38_Witness ==
    /\ pc = "check_day"
    /\ day = 2
    /\ \E i, j, k \in P :
          /\ players[i].lynched /\ players[i].killed_by = None
          /\ players[j].dead /\ ~players[j].lynched /\ players[j].killed_by # None
          /\ ~players[k].dead

(***************************************************************************)
(* C39: a player jailed during Day(n) cannot be killed by the godfather's  *)
(* mafia kill in Night(n): a mafia kill aimed at them at any point of that *)
(* night is rejected, and they are alive after the following pre_day       *)
(* unless another attacker killed them.                                    *)
(***************************************************************************)
C39_JailedPlayerSafeFromMafiaKill ==
    [][ (pc = "pre_day" /\ day > 1) =>
          \A i \in P :
             (players[i].jailed /\ ~players[i].dead) =>
                /\ \A k \in 1..Len(night_log) :
                      (night_log[k].kind = "mafia_kill" /\ night_log[k].target = i)
                         => LedgerBefore(k + 1) = LedgerBefore(k)
                /\ players[i].killed_by # None
                      => ~is_mafia(players[players[i].killed_by].role)
                /\ players'[i].dead
                      => /\ players[i].killed_by # None
                         /\ ~is_mafia(players[players[i].killed_by].role)
      ]_vars

\* the godfather has named a player who was jailed the day before, and the
\* night has been resolved
C39_Witness ==
    /\ pc = "check_pre_day"
    /\ day > 1
    /\ \E k \in 1..Len(night_log) :
          /\ night_log[k].kind = "mafia_kill"
          /\ night_base[night_log[k].target].jailed
          /\ ~players[night_log[k].target].dead

(***************************************************************************)
(* nominate_player under the asyncio.wait of day_tasks (game.py:741-773).  *)
(* Each call of day_tasks on a day after the first makes a new             *)
(* `nominations` dictionary and a new nominate_player task; the task is    *)
(* started by the task wrapping its create_task coroutine and waits in     *)
(* bot.wait_for with its own nomination_check.  It is never in the set     *)
(* `pending` of game.py:768, so game.py:772-773 does not cancel it: a task *)
(* that has not had its two nominations goes on waiting on the following   *)
(* days, beside the task of each of them.  A ">>nominate" message in the   *)
(* chat is given to the check of every waiting task; each task whose check *)
(* returns True sends a vote message of its own.  `msg` of the running     *)
(* day_tasks is set by the task of the day only.                           *)
(***************************************************************************)
\* utils.nomination_check (mafia = False): check on the message
\* ">>nominate t" of player a, for a task whose dictionary is noms
nomination_check(ps, noms, a, t) ==
    IF a = t \/ ps[t].dead
    THEN [nominations |-> noms, returns |-> FALSE]
    ELSE LET n == [noms EXCEPT ![t] = @ + 1]
         IN  [nominations |-> n, returns |-> n[t] = noms_needed]

still_waiting(r) == ~r.returns

\* asyncio.wait of day_tasks is called on Day(1), Day(2) or Day(3) of a game
\* in which nobody has died; on Day(3) the task of Day(2), which had no
\* nomination, is still waiting.  A game on a Python whose asyncio.wait
\* refuses coroutines does not get past Day(1).
NominateInit ==
    /\ config \in Configs
    /\ members = <<>>
    /\ todo = 0
    /\ notifs = <<>>
    /\ reports = {}
    /\ votes = <<>>
    /\ \E c \in godfather_candidates(pick_players(config)) :
       \E len \in Lengths : \E forbids \in BOOLEAN : \E d \in 1..3 :
          /\ forbids => d = 1
          /\ players = choose_godfather(pick_players(config), c)
          /\ day = d
          /\ pending = {i \in Alive(players) :
                           players[i].role = "Jailor" /\ players[i].jails > 0}
          /\ phase_task = (d > 1)
          /\ lingering = IF d = 3 THEN << [i \in DOMAIN players |-> 0] >> ELSE <<>>
          /\ timer = [clock |-> 0,
                      timeout |-> IF d > 1 THEN len ELSE len \div 2,
                      wrappers |-> TRUE, forbids |-> forbids]
    /\ pc = "day"
    /\ is_day = TRUE
    /\ nominations = [i \in DOMAIN players |-> 0]
    /\ nomination = None
    /\ unjailing = None
    /\ announced = {}
    /\ no_kill_note = FALSE
    /\ winners = {}
    /\ night_log = <<>>
    /\ night_base = <<>>
    /\ nominated_by = [i \in DOMAIN players |-> <<>>]
    /\ yes_votes = {}
    /\ no_votes = {}
    /\ cleaner_notes = {}

\* a message ">>nominate t" of player a comes while asyncio.wait is waiting:
\* the checks of the waiting tasks run on it, and every task whose check
\* returns True goes on to send its vote message
NominationMessage ==
    /\ pc = "day"
    /\ ~timer.forbids
    /\ ~timer.wrappers
    /\ \E a \in P : \E t \in P :
          LET old == [k \in DOMAIN lingering |->
                        nomination_check(players, lingering[k], a, t)]
              kept == SelectSeq(old, still_waiting)
              own == nomination_check(players, nominations, a, t)
              sent == Cardinality({k \in DOMAIN old : old[k].returns})
                         + IF phase_task /\ own.returns THEN 1 ELSE 0
          IN  /\ lingering' = [k \in DOMAIN kept |-> kept[k].nominations]
              /\ IF phase_task
                 THEN /\ nominations' = own.nominations
                      /\ nomination' = IF own.returns THEN t ELSE nomination
                      /\ phase_task' = ~own.returns
                 ELSE UNCHANGED << nominations, nomination, phase_task >>
              /\ votes' = votes \o [k \in 1..sent |-> << day, t >>]
    /\ UNCHANGED << players, is_day, day, pc, pending, unjailing, announced,
                    no_kill_note, winners, night_log, night_base, nominated_by,
                    yes_votes, no_votes, cleaner_notes, timer, config, members,
                    todo, notifs, reports >>

NominateNext ==
    \/ WaitRaises
    \/ WrappersRun
    \/ NominationMessage
    \/ TimedDayEnd

NominateSpec == NominateInit /\ [][NominateNext]_vars

(***************************************************************************)
(* C40: no nomination is accepted and no player is lynched during Day(1),  *)
(* and on every later day at most one vote is opened and at most one       *)
(* player is lynched.                                                      *)
(***************************************************************************)
VotesOpened(d) == Cardinality({k \in DOMAIN votes : votes[k][1] = d})

C40_OneVoteADayNoneOnDayOne ==
    /\ day = 1 => /\ votes = <<>>
                  /\ \A i \in P : nominations[i] = 0 /\ ~players[i].lynched
    /\ \A d \in 1..day : VotesOpened(d) <= 1
    /\ Cardinality({i \in P : players[i].lynched}) <= 1

====
